---- MODULE Spec2Model ----
(***************************************************************************)
(* The softphone panel (PhonePanel) of the fax/telephony client.           *)
(*                                                                         *)
(* The repository holds four revisions of the PhonePanel component:        *)
(*   "rev2"  src/unnamed/part_002                (connectionState,         *)
(*           incomingCall record, local vendor calls)                      *)
(*   "rev1"  src/unnamed/part_001                (backend-originated       *)
(*           calls, debug log)                                             *)
(*   "revA"  src/src/app/components/PhonePanel.tsx lines 1-243             *)
(*           (backend-originated calls)                                    *)
(*   "revB"  src/src/app/components/PhonePanel.tsx lines 244-531           *)
(*           (local vendor calls, incoming-call banner)                    *)
(* The variable `variant` selects the revision a behaviour runs; it never  *)
(* changes.  The vendor WebRTC client and the backend are the environment: *)
(* they deliver events and responses in any order.                         *)
(***************************************************************************)
EXTENDS Naturals, Sequences, FiniteSets, TLC

\* ---------------------------------------------------------------- bounds
\* Call identifiers the vendor client may report: 1..NumCalls.
NumCalls == 2
\* Operations that may be awaiting a response or a promise at once (outbound
\* and hangup requests, mute toggles, audio-capture requests together).
MaxPending == 2

\* ------------------------------------------------------------- vocabulary
Variants == {"rev2", "rev1", "revA", "revB"}
BackendVariants == {"rev1", "revA"}

\* A nullable slot (T | null) is a sequence of length at most one.
Null == <<>>
Some(x) == <<x>>

CallIds == 1..NumCalls
Terminal == {"hangup", "destroy"}
\* The states of a call the vendor reports (rev2: type CallState).
NotifStates == {"new", "ringing", "active", "held", "hangup", "destroy", "answering"}

\* The dash stands for the bullet of the template string `${dir} • ${s}`.
Bullet == " - "

\* The word the vendor client puts into call.direction for an inbound call.
\* part_002 declares it as "inbound"; part_001 and both revisions of
\* PhonePanel.tsx test call.direction against 'incoming'.
InboundWords == {"inbound", "incoming"}
\* options.callerName: "" is the vendor's default for calls this client places;
\* an inbound call may come with or without a caller name.
callerName(c) == IF c % 4 = 1 THEN "Alice" ELSE ""
remoteCallerNumber(c) == IF c % 4 = 1 THEN "+15550001111" ELSE ""
destinationNumber(c) == IF c % 2 = 1 THEN "" ELSE "+15556667777"

Dests == {"", "+15556667777"}

VARIABLES
    variant,        \* the revision of PhonePanel that runs
    inboundWord,    \* the vendor's call.direction of an inbound call
    initPc,         \* position of the mount effect's async init
    disposed,       \* the effect's `disposed` flag (true once unmounted)
    ui,             \* the component's useState slots
    clientRef,      \* clientRef.current
    client,         \* the vendor client the init constructed
    outboundCallsRef, \* rev2: ids of calls placed by makeCall
    outboundReqs,   \* POST /telnyx/calls/outbound requests in flight
    hangupReqs,     \* POST /telnyx/calls/{id}/hangup requests in flight
    muteOps,        \* rev1, revA: toggleAudioMute() promises awaited by toggleMute
    answerOps,      \* rev2: getUserMedia() promises awaited by answerCall
    unmountPc,      \* where the init was when the view unmounted ("mounted" until then)
    last,           \* the handler that ran last, the state it saw, what it invoked
    audio,          \* rev2: the <audio> element, the calls' remote streams, the timers
    fax,            \* FaxApp: the component's useState slots
    faxReqs,        \* FaxApp: the fetches in flight
    modal,          \* FaxDetailModal: its useState slots and its fetches in flight
    faxLast         \* the fax handler that ran last, what it received and invoked

\* The softphone's variables and the fax dashboard's; the two panels share none.
phoneVars == <<variant, inboundWord, initPc, disposed, ui, clientRef, client, outboundCallsRef,
               outboundReqs, hangupReqs, muteOps, answerOps, unmountPc, last, audio>>
faxVars == <<fax, faxReqs, modal, faxLast>>

vars == <<variant, inboundWord, initPc, disposed, ui, clientRef, client, outboundCallsRef,
          outboundReqs, hangupReqs, muteOps, answerOps, unmountPc, last, audio,
          fax, faxReqs, modal, faxLast>>

\* Attributes the vendor gives a call object; fixed per identifier.
\* Odd identifiers are inbound calls, even ones outbound.
direction(c) == IF c % 2 = 1 THEN inboundWord ELSE "outbound"
\* call.callerNumber: the caller's number for an inbound call, the number this
\* client calls from otherwise.
callerNumber(c) == IF c % 2 = 1 THEN remoteCallerNumber(c) ELSE "+15552223333"

\* The operations awaiting something, each with what its closure captured.
pending == <<outboundReqs, hangupReqs, muteOps, answerOps>>
PendingCount == outboundReqs + Len(hangupReqs) + Len(muteOps) + Len(answerOps)

\* ------------------------------------------------------------ UI state
InitialStatus(v) == IF v = "rev2" THEN "Connecting..." ELSE "Idle"

\* The call object held as activeCall carries the `state` the vendor had set
\* when the handler stored it. The view reads it through isIncomingRinging
\* alone (rev1, revA), so activeCallRinging keeps that much of the object:
\* whether isIncomingRinging holds of it.
InitialUI(v) ==
    [connectionState |-> "connecting",
     activeCall |-> Null,
     activeCallRinging |-> FALSE,
     incomingCall |-> Null,
     dest |-> "",
     status |-> InitialStatus(v),
     muted |-> FALSE,
     iceServers |-> "empty"]

\* ------------------------------------------------------- Session Bootstrapper
\* JavaScript values as far as truthiness and `??` tell them apart.
Nullish(k) == k \in {"undefined", "null"}
Truthy(k) == k \in {"string", "object"}

\* The parsed body of the token response: the kind of value at body.data, at
\* body.data.login_token (undefined unless body.data is an object), at
\* body.login_token and at body.data.ice_servers.
TokenBodies ==
    {b \in [data : {"undefined", "null", "emptystring", "string", "object"},
            data_login_token : {"undefined", "null", "emptystring", "string"},
            login_token : {"undefined", "null", "emptystring", "string"},
            ice_servers : {"undefined", "object"}] :
        /\ (b.data # "object" => b.data_login_token = "undefined")
        /\ (b.data # "object" => b.ice_servers = "undefined")}

NoBody == [data |-> "undefined", data_login_token |-> "undefined",
           login_token |-> "undefined", ice_servers |-> "undefined"]

\* What the token request ends with: fetch rejects, a non-OK status, a body
\* that is not JSON, or an OK response with a parsed body.
TokenResponses ==
    {[kind |-> k, body |-> NoBody] : k \in {"neterr", "notok", "badjson"}}
        \cup {[kind |-> "ok", body |-> b] : b \in TokenBodies}

NoResponse == [kind |-> "none", body |-> NoBody]

\* The call records, the mute flag and the connection state of a UI state.
Records(u) ==
    [activeCall |-> u.activeCall, incomingCall |-> u.incomingCall,
     muted |-> u.muted, connectionState |-> u.connectionState]

\* What a step records: the handler, its call and state arguments, the call
\* records, mute flag and connection state it found, the vendor/backend
\* invocations it made, in order, and (for the token continuation) the
\* response it received.
Op(name, c, s, fx) ==
    [op |-> name, call |-> c, state |-> s, pre |-> Records(ui), fx |-> fx,
     resp |-> NoResponse]
OpResp(name, r, fx) ==
    [op |-> name, call |-> 0, state |-> r.kind, pre |-> Records(ui), fx |-> fx, resp |-> r]

\* rev2: data?.data?.login_token ?? data?.login_token ?? data?.data
\* others: j?.data?.login_token
loginToken(v, b) ==
    IF v = "rev2"
    THEN IF ~Nullish(b.data_login_token) THEN b.data_login_token
         ELSE IF ~Nullish(b.login_token) THEN b.login_token
         ELSE b.data
    ELSE b.data_login_token

\* The init throws before it constructs the client.
InitThrows(v, r) == r.kind # "ok" \/ ~Truthy(loginToken(v, r.body))

\* The message of the error the init throws.  rev1 puts the HTTP status and
\* the response text into it; they are written <status>, <text>, <json> here.
InitErrorMessage(v, r) ==
    IF r.kind = "neterr" THEN "Failed to fetch"
    ELSE IF r.kind = "badjson" THEN "Unexpected token in JSON"
    ELSE IF r.kind = "notok"
         THEN IF v = "rev1" THEN "Token fetch failed (<status>): <text>"
              ELSE "Token fetch failed"
    ELSE IF v = "rev1" THEN "Missing login_token in response: <json>"
         ELSE "Missing login token"

\* The status the catch block of the init shows.
InitErrorStatus(v, r) ==
    IF v \in {"rev2", "rev1"} THEN "Error: " \o InitErrorMessage(v, r) ELSE "Error"

\* rev2 leaves the catch block at once when disposed; the others have no check.
CatchChecksDisposed(v) == v = "rev2"

\* The remote audio of part_002: whether the behaviour follows it, the call
\* whose stream is the element's srcObject, the calls whose remoteStream
\* exists, and for each call the number of pending
\* setTimeout(() => handleRemoteStream(call), 500) timers: every active
\* notification arms one more and nothing clears one.
MaxTimers == 2
NoTimers == [c \in CallIds |-> 0]
NoAudio == [followed |-> FALSE, srcObject |-> Null, streams |-> {}, timers |-> NoTimers]
SilentAudio == [followed |-> TRUE, srcObject |-> Null, streams |-> {}, timers |-> NoTimers]

\* ------------------------------------------------------ Fax Workflow Surface
\* The fax records the backend holds and the requests the fax panel may
\* have in flight at once.
NumFaxes == 2
MaxRequests == 2
FaxIds == 1..NumFaxes
\* The empty text of the "Enter Fax ID" input.
NoFaxId == 0
Tabs == {"send", "status", "history"}

\* const [...] = useState(...) of FaxApp.
EmptySendForm == [to |-> "", from |-> "", mediaUrl |-> "", file |-> Null]
InitialFax ==
    [activeTab |-> "send", faxes |-> <<>>, loading |-> FALSE, sendingFax |-> FALSE,
     selectedFaxId |-> Null, modalOpen |-> FALSE, sendForm |-> EmptySendForm,
     statusFaxId |-> NoFaxId, faxStatus |-> Null]

\* No fetch in flight.  A send request carries the activeTab its closure holds.
NoFaxIdCount == [i \in FaxIds |-> 0]
NoFaxReqs == [send |-> <<>>, status |-> NoFaxIdCount, list |-> 0]
\* The requests for status or detail in flight, over all ids.
RECURSIVE SumUpTo(_, _)
SumUpTo(f, n) == IF n = 0 THEN 0 ELSE f[n] + SumUpTo(f, n - 1)
InFlight(f) == SumUpTo(f, NumFaxes)
\* The dashboard's requests in flight, of all three kinds.
FaxInFlight(q) == Len(q.send) + InFlight(q.status) + q.list

\* const [fax, setFax] = useState(null); const [loading, setLoading] = useState(false)
InitialModal == [fax |-> Null, loading |-> FALSE, reqs |-> NoFaxIdCount]

\* Timestamps as the backend may send them: the field absent, null, an empty
\* string, or one of two ISO instants.
Instants == {"2024-01-15T10:30:00Z", "2024-02-20T08:00:00Z"}
TimeValues == {"undefined", "null", ""} \cup Instants

\* new Date(v).toLocaleString(), in en-US and UTC.
toLocaleString(v) ==
    IF v = "2024-01-15T10:30:00Z" THEN "1/15/2024, 10:30:00 AM"
    ELSE IF v = "2024-02-20T08:00:00Z" THEN "2/20/2024, 8:00:00 AM"
    ELSE "Invalid Date"

\* a ?? b
Coalesce(a, b) == IF Nullish(a) THEN b ELSE a
\* A string value in a condition.
TruthyValue(v) == ~Nullish(v) /\ v # ""

\* The record GET /fax/status/{id} returns for fax i, its created_at and
\* createdAt as given; the other fields are named in snake case or in camel
\* case.
FaxRecord(i, naming, created_at, createdAt) ==
    [id |-> i, direction |-> "outbound", status |-> "delivered",
     from |-> IF naming = "snake" THEN "+15550001111" ELSE "undefined",
     from_number |-> IF naming = "camel" THEN "+15550001111" ELSE "undefined",
     to |-> IF naming = "snake" THEN "+15559990000" ELSE "undefined",
     to_number |-> IF naming = "camel" THEN "+15559990000" ELSE "undefined",
     quality |-> "undefined",
     created_at |-> created_at, createdAt |-> createdAt,
     updated_at |-> IF naming = "snake" THEN "2024-02-20T08:00:00Z" ELSE "undefined",
     updatedAt |-> "undefined",
     completedAt |-> IF naming = "camel" THEN "2024-02-20T08:00:00Z" ELSE "undefined",
     preview_url |-> "undefined",
     stored_media_url |-> IF naming = "snake" THEN "https://cdn/fax.pdf" ELSE "undefined",
     mediaUrl |-> IF naming = "camel" THEN "https://cdn/fax.pdf" ELSE "undefined"]
\* Odd faxes are stored with snake-case names, even ones with camel-case names.
naming(i) == IF i % 2 = 1 THEN "snake" ELSE "camel"
FaxRecords(i) ==
    {FaxRecord(i, naming(i), a, b) : a \in TimeValues, b \in TimeValues}
NoFaxRecord == FaxRecord(0, "snake", "undefined", "undefined")

\* What a fax request ends with: fetch rejects, a body that is not JSON, a
\* non-OK status, an OK status without `data`, an OK status with `data`.
FailureKinds == {"neterr", "badjson", "notok", "nodata"}
ResponseKinds == FailureKinds \cup {"ok"}
\* response.ok && result.data
OkWithData_StatusOnly(kind) == kind \in {"ok", "nodata"}
OkWithData(kind) == kind = "ok"
\* result.data.data of GET /fax/list: absent, or the ids of the faxes.
FaxLists == {Null} \cup {Some([k \in 1..n |-> k]) : n \in 0..NumFaxes}
\* What a detail request for fax i ends with.
DetailResponses(i) ==
    {[kind |-> k, data |-> NoFaxRecord] : k \in FailureKinds}
        \cup {[kind |-> "ok", data |-> d] : d \in FaxRecords(i)}

\* const normalized = { ... }
normalized_SnakeOnly(d) ==
    [id |-> d.id, direction |-> d.direction,
     from |-> Coalesce(d.from, "null"), to |-> Coalesce(d.to, "null"),
     status |-> d.status, quality |-> Coalesce(d.quality, "null"),
     created_at |-> Coalesce(d.created_at, "null"),
     updated_at |-> Coalesce(d.updated_at, "null"),
     preview_url |-> Coalesce(d.preview_url, "null"),
     stored_media_url |-> Coalesce(d.stored_media_url, "null")]
normalized(d) ==
    [id |-> d.id,
     direction |-> d.direction,
     from |-> Coalesce(d.from, Coalesce(d.from_number, "null")),
     to |-> Coalesce(d.to, Coalesce(d.to_number, "null")),
     status |-> d.status,
     quality |-> Coalesce(d.quality, "null"),
     created_at |-> Coalesce(d.created_at, Coalesce(d.createdAt, "null")),
     updated_at |-> Coalesce(d.updated_at, Coalesce(d.updatedAt, Coalesce(d.completedAt, "null"))),
     preview_url |-> Coalesce(d.preview_url, "null"),
     stored_media_url |-> Coalesce(d.stored_media_url, Coalesce(d.mediaUrl, "null"))]

\* The text after the "Created At:" label.
CreatedAtRow(f) == IF TruthyValue(f.created_at) THEN toLocaleString(f.created_at) ELSE "-"

\* What the overlay renders: nothing, the spinner, the detail grid (here its
\* "Created At" text) or the failure line.
ModalShows(isOpen, m) ==
    IF ~isOpen THEN "nothing"
    ELSE IF m.loading THEN "Loading..."
    ELSE IF m.fax # Null THEN CreatedAtRow(m.fax[1])
    ELSE "Failed to load fax details."

\* What a fax step records: the handler, the tab that was active when it
\* started, the fax id it was given, the response it received, the requests
\* it issued and the alert it raised.
FaxOp(name, tab, id, kind, data, fx, alert) ==
    [op |-> name, tab |-> tab, id |-> id, kind |-> kind, data |-> data,
     fx |-> fx, alert |-> alert]

\* The fax dashboard after its first render (the mount effect finds the send
\* tab and fetches nothing).
FaxStart ==
    /\ fax = InitialFax
    /\ faxReqs = NoFaxReqs
    /\ modal = InitialModal
    /\ faxLast = FaxOp("render", "send", 0, "none", NoFaxRecord, <<>>, "")

\* The state after the component is constructed, for revision v, a vendor
\* client whose inbound calls have direction w, and remote audio a.
StartWith(v, w, a) ==
    /\ variant = v
    /\ inboundWord = w
    /\ audio = a
    /\ initPc = "idle"
    /\ disposed = FALSE
    /\ ui = InitialUI(variant)
    /\ clientRef = Null
    /\ client = "none"
    /\ outboundCallsRef = {}
    /\ outboundReqs = 0
    /\ hangupReqs = <<>>
    /\ muteOps = <<>>
    /\ answerOps = <<>>
    /\ unmountPc = "mounted"
    /\ last = [op |-> "render", call |-> 0, state |-> "",
               pre |-> Records(InitialUI(variant)), fx |-> <<>>, resp |-> NoResponse]
    /\ FaxStart

\* The same, the remote audio not followed.
Start(v, w) == StartWith(v, w, NoAudio)

Init == \E v \in Variants : Start(v, "inbound")

\* useEffect(() => { ... initClient() ... }, []): the synchronous part.
Mount ==
    /\ initPc = "idle"
    /\ initPc' = "fetching"
    /\ ui' = IF variant = "rev2"
             THEN [ui EXCEPT !.connectionState = "connecting", !.status = "Fetching token..."]
             ELSE ui
    /\ last' = Op("mount", 0, "", <<"fetch:token">>)
    /\ UNCHANGED <<faxVars, variant, inboundWord, audio, disposed, clientRef, client, outboundCallsRef, pending,
                   unmountPc>>

\* The continuation of the init after `await fetch(...)`.
TokenResponse(r) ==
    /\ initPc = "fetching"
    /\ initPc' = "done"
    /\ IF InitThrows(variant, r)
       THEN /\ ui' = IF CatchChecksDisposed(variant) /\ disposed
                     THEN ui
                     ELSE [ui EXCEPT !.connectionState = "error",
                                     !.status = InitErrorStatus(variant, r)]
            /\ last' = OpResp("tokenResponse", r, <<>>)
            /\ UNCHANGED <<clientRef, client>>
       ELSE /\ ui' = IF variant = "revB"
                     THEN [ui EXCEPT !.iceServers =
                              IF Truthy(r.body.ice_servers) THEN "given" ELSE "empty"]
                     ELSE ui
            /\ clientRef' = Some("client")
            /\ client' = "connecting"
            /\ last' = OpResp("tokenResponse", r, <<"new TelnyxRTC", "connect">>)
    /\ UNCHANGED <<faxVars, variant, inboundWord, audio, disposed, outboundCallsRef, pending, unmountPc>>

\* Whether the cleanup of revision v wraps the vendor's disconnect in try/catch.
CleanupCatches(v) == v \in {"rev2", "rev1"}

\* The effect's cleanup, run when the view unmounts; the vendor's disconnect
\* returns or throws.  An exception that nothing catches ends the cleanup
\* before clientRef.current = null.
Unmount(throws) ==
    /\ initPc # "idle"
    /\ ~disposed
    /\ throws => clientRef # Null
    /\ disposed' = TRUE
    /\ unmountPc' = initPc
    /\ IF clientRef # Null
       THEN /\ client' = IF throws THEN client ELSE "disconnected"
            /\ clientRef' = IF throws /\ ~CleanupCatches(variant) THEN clientRef ELSE Null
            /\ last' = Op("unmount", 0, IF throws THEN "threw" ELSE "", <<"disconnect">>)
       ELSE /\ UNCHANGED <<client, clientRef>>
            /\ last' = Op("unmount", 0, "", <<>>)
    /\ UNCHANGED <<faxVars, variant, inboundWord, audio, initPc, ui, outboundCallsRef, pending>>

\* ------------------------------------------------------------ Event Observer
\* x || fallback, for strings.
OrElse(x, fallback) == IF x # "" THEN x ELSE fallback

\* rev2 cleanupCall, its last statement: remoteAudioRef.current.srcObject = null.
cleanupAudio(a) == IF a.followed THEN [a EXCEPT !.srcObject = Null] ELSE a

\* rev2 handleRemoteStream(call), run by one timer of call c: attaches the
\* stream if the element is mounted and the call has one; that timer is spent.
handleRemoteStream(a, c, mounted) ==
    IF a.followed /\ mounted /\ c \in a.streams
    THEN [a EXCEPT !.srcObject = Some(c), !.timers[c] = @ - 1]
    ELSE [a EXCEPT !.timers[c] = @ - 1]

\* rev2 handleCallUpdate, the audio part: setTimeout(() => handleRemoteStream(call), 500)
\* on active, cleanupCall on a terminal state.
handleCallUpdateAudio(a, c, s) ==
    IF ~a.followed THEN a
    ELSE IF s = "active" THEN [a EXCEPT !.timers[c] = @ + 1]
    ELSE IF s \in Terminal THEN cleanupAudio(a)
    ELSE a

\* A cleanupCall that forgets the mute flag.
cleanupCall_KeepsMute(u, cs) ==
    [u EXCEPT !.activeCall = Null,
              !.incomingCall = Null,
              !.status = IF cs = "ready" THEN "Ready" ELSE "Disconnected"]

\* A cleanupCall that also marks the connection as lost.
cleanupCall_Disconnects(u, cs) ==
    [u EXCEPT !.activeCall = Null,
              !.incomingCall = Null,
              !.muted = FALSE,
              !.connectionState = "disconnected",
              !.status = "Disconnected"]

\* A cleanupCall that flips the mute flag instead of resetting it.
cleanupCall_TogglesMute(u, cs) ==
    [u EXCEPT !.activeCall = Null,
              !.incomingCall = Null,
              !.muted = ~u.muted,
              !.status = IF cs = "ready" THEN "Ready" ELSE "Disconnected"]

\* rev2 cleanupCall; cs is the connectionState its closure captured.
cleanupCall(u, cs) ==
    [u EXCEPT !.activeCall = Null,
              !.incomingCall = Null,
              !.muted = FALSE,
              !.status = IF cs = "ready" THEN "Ready" ELSE "Disconnected"]

\* The mount effect runs once (its dependency list is empty), so the
\* notification handler it registers keeps the handleCallUpdate and the
\* cleanupCall of the first render, which see the first render's
\* connectionState.
EffectConnectionState == InitialUI("rev2").connectionState

\* A handleCallUpdate that adds the active call to the calls it tracks
\* instead of replacing the one it tracks.
handleCallUpdate_KeepsBoth(u, c, s, cs) ==
    IF s = "active"
    THEN [u EXCEPT !.activeCall = Append(u.activeCall, c),
                   !.incomingCall = Null,
                   !.status = "Connected"]
    ELSE IF s \in Terminal
    THEN cleanupCall(u, cs)
    ELSE u

\* A handleCallUpdate that promotes the active call without clearing the
\* incoming-call record.
handleCallUpdate_KeepsIncoming(u, c, s, cs) ==
    IF s = "ringing" /\ callerName(c) # ""
    THEN [u EXCEPT !.incomingCall =
                       Some([from |-> OrElse(remoteCallerNumber(c), "Unknown"),
                             to |-> OrElse(destinationNumber(c), "You"),
                             call |-> c]),
                   !.status = "Incoming: " \o OrElse(remoteCallerNumber(c), "Unknown")]
    ELSE IF s = "active"
    THEN [u EXCEPT !.activeCall = Some(c), !.status = "Connected"]
    ELSE IF s \in Terminal
    THEN cleanupCall(u, cs)
    ELSE u

\* rev2 handleCallUpdate(call), for a call object with identifier c in state s.
handleCallUpdate(u, c, s, cs) ==
    IF s = "ringing" /\ callerName(c) # ""
    THEN [u EXCEPT !.incomingCall =
                       Some([from |-> OrElse(remoteCallerNumber(c), "Unknown"),
                             to |-> OrElse(destinationNumber(c), "You"),
                             call |-> c]),
                   !.status = "Incoming: " \o OrElse(remoteCallerNumber(c), "Unknown")]
    ELSE IF s = "active"
    THEN [u EXCEPT !.activeCall = Some(c),
                   !.incomingCall = Null,
                   !.status = "Connected"]
    ELSE IF s \in Terminal
    THEN cleanupCall(u, cs)
    ELSE u

\* rev1, revA, revB: isIncomingRinging(call), for a call object with
\* identifier c in state s.
RingingStates == {"ringing", "new", "invite"}
isIncomingRinging(c, s) == direction(c) = "incoming" /\ s \in RingingStates

\* rev1, revA, revB: formatStatus(call).
formatStatus(c, s) ==
    (IF direction(c) # "" THEN direction(c) \o Bullet ELSE "") \o OrElse(s, "active")

\* rev1, revA, revB: the states the callUpdate handler takes for the end of a call.
EndStates == {"ended", "hangup", "rejected", "failed"}

\* rev1, revA, revB: what the call.hangup and call.ended handlers, and the
\* callUpdate handler on an end state, set.
resetCall(v, u) ==
    [u EXCEPT !.activeCall = Null,
              !.activeCallRinging = FALSE,
              !.incomingCall = IF v = "revB" THEN Null ELSE @,
              !.status = "Ready",
              !.muted = FALSE]

\* rev1, revA, revB: the 'callUpdate' handler.
onCallUpdate(v, u, c, s) ==
    IF s \in EndStates
    THEN resetCall(v, u)
    ELSE [u EXCEPT !.activeCall = Some(c),
                   !.activeCallRinging = isIncomingRinging(c, s),
                   !.status = formatStatus(c, s)]

\* revB: the 'telnyx.notification' handler, for a callUpdate notification.
onNotificationB(u, c, s) ==
    IF direction(c) = "incoming" /\ s = "ringing"
    THEN [u EXCEPT !.activeCall = Some(c),
                   !.activeCallRinging = isIncomingRinging(c, s),
                   !.incomingCall =
                       Some([from |-> OrElse(callerNumber(c), "Unknown"),
                             to |-> OrElse(destinationNumber(c), "Unknown"),
                             call |-> 0]),
                   !.status = "Incoming call..."]
    ELSE u

\* What the handler of a vendor event leaves alone.
Frame == UNCHANGED <<faxVars, variant, inboundWord, audio, initPc, disposed, clientRef, client, outboundCallsRef,
                     pending, unmountPc>>

\* The vendor client, as far as this model follows it: "none" until the init
\* constructs it, "connecting" once connect() was called, "ready" once it has
\* registered (it delivers call events only then), "disconnected" after
\* disconnect().
ClientLive == client \in {"connecting", "ready"}

\* 'telnyx.ready'
TelnyxReady ==
    /\ ClientLive
    /\ client' = "ready"
    /\ ui' = IF disposed THEN ui
             ELSE [ui EXCEPT !.connectionState = "ready",
                             !.status = IF variant = "rev2" THEN "Ready for calls"
                                        ELSE "Ready"]
    /\ last' = Op("telnyx.ready", 0, "", <<>>)
    /\ UNCHANGED <<faxVars, variant, inboundWord, audio, initPc, disposed, clientRef, outboundCallsRef, pending, unmountPc>>

\* 'telnyx.error'; rev1 leaves the state alone for the error codes of an
\* ended call (code = "CALL_ENDED" stands for CALL_ENDED, CALL_HANGUP, -32002).
TelnyxError(code) ==
    /\ ClientLive
    /\ ui' = IF disposed \/ (variant = "rev1" /\ code = "CALL_ENDED") THEN ui
             ELSE [ui EXCEPT !.connectionState = "error",
                             !.status = IF variant = "rev2" THEN "Connection error"
                                        ELSE IF variant = "rev1" THEN "Error: <message>"
                                        ELSE "Error"]
    /\ last' = Op("telnyx.error", 0, code, <<>>)
    /\ Frame

\* 'telnyx.socket.close': the vendor has lost its socket and connects again.
\* Only rev2 has a handler that sets state.
TelnyxSocketClose ==
    /\ ClientLive
    /\ client' = "connecting"
    /\ ui' = IF disposed \/ variant # "rev2" THEN ui
             ELSE [ui EXCEPT !.connectionState = "disconnected",
                             !.status = "Disconnected"]
    /\ last' = Op("telnyx.socket.close", 0, "", <<>>)
    /\ UNCHANGED <<faxVars, variant, inboundWord, audio, initPc, disposed, clientRef, outboundCallsRef, pending, unmountPc>>

\* At most MaxTimers timers of one call are followed at a time: a further
\* active notification for the call waits until one of them has fired.
TimerFree(c, s) ==
    (audio.followed /\ ~disposed /\ variant = "rev2" /\ s = "active")
        => audio.timers[c] < MaxTimers

\* 'telnyx.notification' of type callUpdate with a call object (rev2, revB).
TelnyxNotification(c, s) ==
    /\ client = "ready"
    /\ variant \in {"rev2", "revB"}
    /\ TimerFree(c, s)
    /\ ui' = IF disposed THEN ui
             ELSE IF variant = "rev2"
             THEN handleCallUpdate(ui, c, s, EffectConnectionState)
             ELSE onNotificationB(ui, c, s)
    /\ outboundCallsRef' = IF ~disposed /\ variant = "rev2" /\ s \in Terminal
                           THEN outboundCallsRef \ {c}
                           ELSE outboundCallsRef
    /\ audio' = IF ~disposed /\ variant = "rev2" THEN handleCallUpdateAudio(audio, c, s)
                ELSE audio
    /\ last' = Op("telnyx.notification", c, s, <<>>)
    /\ UNCHANGED <<faxVars, variant, inboundWord, initPc, disposed, clientRef, client, pending, unmountPc>>

\* The vendor makes the remote stream of call c available (call.remoteStream).
RemoteStreamAvailable(c) ==
    /\ audio.followed
    /\ client = "ready"
    /\ c \notin audio.streams
    /\ audio' = [audio EXCEPT !.streams = @ \cup {c}]
    /\ last' = Op("remoteStream", c, "", <<>>)
    /\ UNCHANGED ui
    /\ UNCHANGED <<faxVars, variant, inboundWord, initPc, disposed, clientRef, client,
                   outboundCallsRef, pending, unmountPc>>

\* The timer armed by an active call update of call c fires. After the
\* unmount remoteAudioRef.current is null.
RemoteStreamTimer(c) ==
    /\ audio.followed
    /\ audio.timers[c] > 0
    /\ audio' = handleRemoteStream(audio, c, ~disposed)
    /\ last' = Op("handleRemoteStream", c, "", <<>>)
    /\ UNCHANGED ui
    /\ UNCHANGED <<faxVars, variant, inboundWord, initPc, disposed, clientRef, client,
                   outboundCallsRef, pending, unmountPc>>

\* 'telnyx.notification' of type userMediaError (rev2 shows it; revB ignores it).
UserMediaError ==
    /\ client = "ready"
    /\ variant \in {"rev2", "revB"}
    /\ ui' = IF disposed \/ variant = "revB" THEN ui
             ELSE [ui EXCEPT !.status = "Microphone access denied"]
    /\ last' = Op("userMediaError", 0, "", <<>>)
    /\ Frame

\* 'callUpdate' (rev1, revA, revB).
CallUpdate(c, s) ==
    /\ client = "ready"
    /\ variant \in {"rev1", "revA", "revB"}
    /\ ui' = IF disposed THEN ui ELSE onCallUpdate(variant, ui, c, s)
    /\ last' = Op("callUpdate", c, s, <<>>)
    /\ Frame

\* 'call.hangup' and 'call.ended' (rev1, revA, revB): no disposed check.
CallEnded(name) ==
    /\ client = "ready"
    /\ variant \in {"rev1", "revA", "revB"}
    /\ ui' = resetCall(variant, ui)
    /\ last' = Op(name, 0, "", <<>>)
    /\ Frame

\* --------------------------------------------------------- Call Control Surface
\* The user can act on the view once it is mounted and until it is unmounted.
Mounted == initPc # "idle" /\ ~disposed

RemoveAt(q, i) == SubSeq(q, 1, i - 1) \o SubSeq(q, i + 1, Len(q))

\* A user action that ends without doing anything: its control is disabled
\* ("disabled") or its handler returns at its guard ("returned").
NoOp(name, why) ==
    /\ ui' = ui
    /\ last' = Op(name, 0, why, <<>>)
    /\ UNCHANGED <<outboundCallsRef, pending>>

\* setDest, from the destination input.
SetDest(d) ==
    /\ Mounted
    /\ d # ui.dest
    /\ ui' = [ui EXCEPT !.dest = d]
    /\ last' = Op("setDest", 0, "", <<>>)
    /\ Frame

\* rev2: isCallInProgress
isCallInProgress(u) == u.activeCall # Null \/ u.incomingCall # Null

\* A Call button that is not disabled by the connection state.
CallButtonDisabled_NoReadyCheck(v, u) ==
    IF v = "rev2"
    THEN u.dest = "" \/ u.activeCall # Null \/ u.incomingCall # Null
    ELSE u.status # "Ready"

\* The `disabled` attribute of the Call button.
CallButtonDisabled(v, u) ==
    IF v = "rev2"
    THEN u.connectionState # "ready" \/ u.dest = "" \/ isCallInProgress(u)
    ELSE u.connectionState # "ready" \/ u.status # "Ready"

\* The identifiers the vendor may give a call this client places.
PlacedIds == {c \in CallIds : direction(c) = "outbound"}

\* A makeCall that constructs the call without showing that it dials.
makeCall_NoStatus(c, throws) ==
    /\ ui' = ui
    /\ outboundCallsRef' = IF throws THEN outboundCallsRef ELSE outboundCallsRef \cup {c}
    /\ last' = Op("placeCall", IF throws THEN 0 ELSE c,
                  IF throws THEN "threw" ELSE "", <<"newCall">>)
    /\ UNCHANGED pending

\* Whether the place-call handler of revision v has a try/catch around the
\* vendor constructor or the backend request: rev2 makeCall has none.
PlaceCallCatches(v) == v # "rev2"

\* rev2 makeCall: the vendor constructs call c, or its constructor throws
\* (nothing catches it: the handler ends before setStatus).
makeCall(c, throws) ==
    /\ ui' = IF throws THEN ui ELSE [ui EXCEPT !.status = "Dialing..."]
    /\ outboundCallsRef' = IF throws THEN outboundCallsRef ELSE outboundCallsRef \cup {c}
    /\ last' = Op("placeCall", IF throws THEN 0 ELSE c,
                  IF throws THEN "threw" ELSE "", <<"newCall">>)
    /\ UNCHANGED pending

\* revB call: the constructor's exception is caught and status reverts.
callLocal(c, throws) ==
    /\ ui' = [ui EXCEPT !.status = IF throws THEN "Ready" ELSE "Call initiated"]
    /\ last' = Op("placeCall", IF throws THEN 0 ELSE c,
                  IF throws THEN "threw" ELSE "", <<"newCall">>)
    /\ UNCHANGED <<outboundCallsRef, pending>>

\* rev1, revA call, up to its `await fetch(...)`.
callBackend ==
    /\ PendingCount < MaxPending
    /\ ui' = [ui EXCEPT !.status = "Initiating call..."]
    /\ outboundReqs' = outboundReqs + 1
    /\ last' = Op("placeCall", 0, "", <<"fetch:outbound">>)
    /\ UNCHANGED <<outboundCallsRef, hangupReqs, muteOps, answerOps>>

\* A click on the Call button.
PlaceCall(c, throws) ==
    /\ Mounted
    /\ IF CallButtonDisabled(variant, ui) THEN NoOp("placeCall", "disabled")
       ELSE IF clientRef = Null \/ ui.dest = "" THEN NoOp("placeCall", "returned")
       ELSE IF variant = "rev2" THEN makeCall(c, throws)
       ELSE IF variant = "revB" THEN callLocal(c, throws)
       ELSE callBackend
    /\ UNCHANGED <<faxVars, variant, inboundWord, audio, initPc, disposed, clientRef, client, unmountPc>>

\* The status rev1/revA show once the backend accepted the outbound call.
CallInitiatedStatus(v) ==
    IF v = "rev1" THEN "Call initiated - waiting for connection..." ELSE "Call initiated"

\* The outbound request failed, as the continuation of call sees it: fetch
\* rejected, a non-OK status, or (rev1, which parses the body) a body that is
\* not JSON.
OutboundFailed(v, kind) == kind \in {"neterr", "notok"} \/ (v = "rev1" /\ kind = "badjson")

\* rev1, revA call after the await.
onOutboundResponse(v, u, kind) ==
    [u EXCEPT !.status = IF OutboundFailed(v, kind) THEN "Ready" ELSE CallInitiatedStatus(v)]

OutboundResponse(kind) ==
    /\ outboundReqs > 0
    /\ outboundReqs' = outboundReqs - 1
    /\ ui' = onOutboundResponse(variant, ui, kind)
    /\ last' = Op("outboundResponse", 0, kind, <<>>)
    /\ UNCHANGED <<faxVars, variant, inboundWord, audio, initPc, disposed, clientRef, client, outboundCallsRef,
                   unmountPc, hangupReqs, muteOps, answerOps>>

\* The `disabled` attribute of the Hangup button.
HangupButtonDisabled(v, u) ==
    IF v = "revB" THEN u.activeCall = Null /\ u.incomingCall = Null
    ELSE u.activeCall = Null

\* rev2 hangupCall: the vendor hangup, whose exception is caught; no state is set.
hangupCall(c) ==
    /\ ui' = ui
    /\ last' = Op("hangup", c, "", <<"hangup">>)
    /\ UNCHANGED <<outboundCallsRef, pending>>

\* revB hangup: the vendor hangup, then the reset whatever it did.
hangupLocal(c) ==
    /\ ui' = resetCall("revB", ui)
    /\ last' = Op("hangup", c, "", <<"hangup">>)
    /\ UNCHANGED <<outboundCallsRef, pending>>

\* rev1, revA hangup, up to its `await fetch(...)`: every call object has an
\* id, so the request goes to the backend.
hangupBackend(c) ==
    /\ PendingCount < MaxPending
    /\ ui' = ui
    /\ hangupReqs' = Append(hangupReqs, c)
    /\ last' = Op("hangup", c, "", <<"fetch:hangup">>)
    /\ UNCHANGED <<outboundCallsRef, outboundReqs, muteOps, answerOps>>

\* A click on the Hangup button.
Hangup ==
    /\ Mounted
    /\ IF HangupButtonDisabled(variant, ui) THEN NoOp("hangup", "disabled")
       ELSE IF ui.activeCall = Null THEN NoOp("hangup", "returned")
       ELSE IF variant = "rev2" THEN hangupCall(ui.activeCall[1])
       ELSE IF variant = "revB" THEN hangupLocal(ui.activeCall[1])
       ELSE hangupBackend(ui.activeCall[1])
    /\ UNCHANGED <<faxVars, variant, inboundWord, audio, initPc, disposed, clientRef, client, unmountPc>>

\* The hangup request failed, as the continuation of hangup sees it: rev1
\* throws on a non-OK status, revA does not look at the status.
HangupFailed(v, kind) == kind = "neterr" \/ (v = "rev1" /\ kind = "notok")

\* rev1, revA hangup after the await: the catch block falls back to the
\* vendor hangup and resets the state; the success path sets nothing.
HangupResponse(i, kind) ==
    /\ i \in 1..Len(hangupReqs)
    /\ hangupReqs' = RemoveAt(hangupReqs, i)
    /\ IF HangupFailed(variant, kind)
       THEN /\ ui' = resetCall(variant, ui)
            /\ last' = Op("hangupResponse", hangupReqs[i], kind, <<"hangup">>)
       ELSE /\ ui' = ui
            /\ last' = Op("hangupResponse", hangupReqs[i], kind, <<>>)
    /\ UNCHANGED <<faxVars, variant, inboundWord, audio, initPc, disposed, clientRef, client, outboundCallsRef,
                   unmountPc, outboundReqs, muteOps, answerOps>>

\* rev2 rejectCall: the vendor hangup, then cleanupCall of the current render;
\* neither runs past a hangup that throws.
rejectCall(throws) ==
    /\ ui' = IF throws THEN ui ELSE cleanupCall(ui, ui.connectionState)
    /\ last' = Op("reject", ui.incomingCall[1].call, IF throws THEN "threw" ELSE "",
                  <<"hangup">>)
    /\ UNCHANGED <<outboundCallsRef, pending>>

\* rev2: rejectCall() called as it stands. The view of part_002 binds it to
\* no control, so no click leads here: this step belongs to SpecRejectCall
\* alone, which examines the function.
InvokeRejectCall(throws) ==
    /\ Mounted
    /\ variant = "rev2"
    /\ IF ui.incomingCall = Null THEN NoOp("reject", "returned")
       ELSE rejectCall(throws)
    /\ audio' = IF ui.incomingCall # Null /\ ~throws THEN cleanupAudio(audio) ELSE audio
    /\ UNCHANGED <<faxVars, variant, inboundWord, initPc, disposed, clientRef, client, unmountPc>>

\* revB reject, from the Reject button of the incoming-call banner.
rejectB(throws) ==
    /\ ui' = IF throws THEN ui
             ELSE [ui EXCEPT !.incomingCall = Null, !.status = "Call rejected"]
    /\ last' = Op("reject", ui.activeCall[1], IF throws THEN "threw" ELSE "", <<"hangup">>)
    /\ UNCHANGED <<outboundCallsRef, pending>>

\* A click on the Reject button (revB; the banner that holds it is rendered
\* only with an incoming-call record).
Reject(throws) ==
    /\ Mounted
    /\ variant = "revB"
    /\ IF ui.incomingCall = Null THEN NoOp("reject", "disabled")
       ELSE IF ui.activeCall = Null THEN NoOp("reject", "returned")
       ELSE rejectB(throws)
    /\ UNCHANGED <<faxVars, variant, inboundWord, audio, initPc, disposed, clientRef, client, unmountPc>>

\* A toggleMute that flips the mute flag before it invokes the vendor.
toggleMuteSync_SetsFirst(throws) ==
    /\ ui' = [ui EXCEPT !.muted = ~ui.muted]
    /\ last' = Op("toggleMute", ui.activeCall[1], IF throws THEN "threw" ELSE "",
                  <<IF ui.muted THEN "unmuteAudio" ELSE "muteAudio">>)
    /\ UNCHANGED <<outboundCallsRef, pending>>

\* rev2 toggleMute: the vendor call, then setMuted; an exception of the vendor
\* call is caught before setMuted runs.
toggleMuteSync(throws) ==
    /\ ui' = IF throws THEN ui ELSE [ui EXCEPT !.muted = ~ui.muted]
    /\ last' = Op("toggleMute", ui.activeCall[1], IF throws THEN "threw" ELSE "",
                  <<IF ui.muted THEN "unmuteAudio" ELSE "muteAudio">>)
    /\ UNCHANGED <<outboundCallsRef, pending>>

\* rev1, revA toggleMute, up to `await toggleAudioMute()`: the continuation
\* keeps the `muted` of the render that was clicked.
toggleMuteAsync ==
    /\ PendingCount < MaxPending
    /\ ui' = ui
    /\ muteOps' = Append(muteOps, ui.muted)
    /\ last' = Op("toggleMute", ui.activeCall[1], "", <<"toggleAudioMute">>)
    /\ UNCHANGED <<outboundCallsRef, outboundReqs, hangupReqs, answerOps>>

\* A click on the Mute/Unmute button (disabled without an active call).
ToggleMute(throws) ==
    /\ Mounted
    /\ IF ui.activeCall = Null THEN NoOp("toggleMute", "disabled")
       ELSE IF variant \in BackendVariants THEN toggleMuteAsync
       ELSE toggleMuteSync(throws)
    /\ UNCHANGED <<faxVars, variant, inboundWord, audio, initPc, disposed, clientRef, client, unmountPc>>

\* rev1, revA toggleMute after the await: setMuted(!muted) unless the vendor failed.
MuteSettled(i, ok) ==
    /\ i \in 1..Len(muteOps)
    /\ muteOps' = RemoveAt(muteOps, i)
    /\ ui' = IF ok THEN [ui EXCEPT !.muted = ~muteOps[i]] ELSE ui
    /\ last' = Op("muteSettled", 0, IF ok THEN "" ELSE "threw", <<>>)
    /\ UNCHANGED <<faxVars, variant, inboundWord, audio, initPc, disposed, clientRef, client, outboundCallsRef,
                   unmountPc, outboundReqs, hangupReqs, answerOps>>

\* The `disabled` attribute of the Answer button: rev1, revA
\* !activeCall || !isIncomingRinging(activeCall); rev2, revB !incomingCall.
AnswerButtonDisabled(v, u) ==
    IF v \in BackendVariants
    THEN u.activeCall = Null \/ ~u.activeCallRinging
    ELSE u.incomingCall = Null

\* rev2 answerCall, up to `await getUserMedia(...)`: the continuation keeps
\* the incomingCall of the render that was clicked.
answerCall ==
    /\ PendingCount < MaxPending
    /\ ui' = ui
    /\ answerOps' = Append(answerOps, ui.incomingCall[1].call)
    /\ last' = Op("answer", ui.incomingCall[1].call, "", <<"getUserMedia">>)
    /\ UNCHANGED <<outboundCallsRef, outboundReqs, hangupReqs, muteOps>>

\* revB answer: the vendor answer, then the banner is cleared.
answerB(throws) ==
    /\ ui' = IF throws THEN ui
             ELSE [ui EXCEPT !.incomingCall = Null, !.status = "Call answered"]
    /\ last' = Op("answer", ui.activeCall[1], IF throws THEN "threw" ELSE "", <<"answer">>)
    /\ UNCHANGED <<outboundCallsRef, pending>>

\* rev1, revA answer: the vendor answer; no state is set.
answerA ==
    /\ ui' = ui
    /\ last' = Op("answer", ui.activeCall[1], "", <<"answer">>)
    /\ UNCHANGED <<outboundCallsRef, pending>>

\* A click on the Answer button.
Answer(throws) ==
    /\ Mounted
    /\ IF AnswerButtonDisabled(variant, ui) THEN NoOp("answer", "disabled")
       ELSE IF variant = "rev2" THEN answerCall
       ELSE IF ui.activeCall = Null THEN NoOp("answer", "returned")
       ELSE IF variant = "revB" THEN answerB(throws)
       ELSE answerA
    /\ UNCHANGED <<faxVars, variant, inboundWord, audio, initPc, disposed, clientRef, client, unmountPc>>

\* An answerCall that answers without waiting for the permission.
MediaSettled_AnswersAnyway(i, granted, throws) ==
    /\ i \in 1..Len(answerOps)
    /\ answerOps' = RemoveAt(answerOps, i)
    /\ ui' = [ui EXCEPT !.status = IF ~throws THEN "Answering..." ELSE "Failed to answer"]
    /\ last' = Op("mediaSettled", answerOps[i],
                  IF ~granted THEN "denied" ELSE IF throws THEN "threw" ELSE "",
                  <<"answer">>)
    /\ UNCHANGED <<faxVars, variant, inboundWord, audio, initPc, disposed, clientRef, client,
                   outboundCallsRef, unmountPc, outboundReqs, hangupReqs, muteOps>>

\* rev2 answerCall after the await: with the permission granted the vendor
\* answer runs and status is "Answering..."; a denied permission or an answer
\* that throws ends in the catch block.
MediaSettled(i, granted, throws) ==
    /\ i \in 1..Len(answerOps)
    /\ answerOps' = RemoveAt(answerOps, i)
    /\ ui' = [ui EXCEPT !.status = IF granted /\ ~throws THEN "Answering..."
                                   ELSE "Failed to answer"]
    /\ last' = Op("mediaSettled", answerOps[i],
                  IF ~granted THEN "denied" ELSE IF throws THEN "threw" ELSE "",
                  IF granted THEN <<"answer">> ELSE <<>>)
    /\ UNCHANGED <<faxVars, variant, inboundWord, audio, initPc, disposed, clientRef, client, outboundCallsRef,
                   unmountPc, outboundReqs, hangupReqs, muteOps>>

\* The keypad digits, as far as the handlers tell them apart (they do not).
Digits == {"1", "#"}

\* A keypad that invokes the vendor dtmf whether or not a call is active.
SendDTMF_NoGuard(d, throws) ==
    /\ Mounted
    /\ ui' = ui
    /\ last' = Op("sendDTMF", 0, IF throws THEN "threw" ELSE d, <<"dtmf">>)
    /\ UNCHANGED <<outboundCallsRef, pending>>
    /\ UNCHANGED <<faxVars, variant, inboundWord, audio, initPc, disposed, clientRef, client, unmountPc>>

\* A click on a keypad button (disabled without an active call): the vendor
\* dtmf, whose exception is caught; no state is set.
SendDTMF(d, throws) ==
    /\ Mounted
    /\ IF ui.activeCall = Null THEN NoOp("sendDTMF", "disabled")
       ELSE /\ ui' = ui
            /\ last' = Op("sendDTMF", ui.activeCall[1], IF throws THEN "threw" ELSE d,
                          <<"dtmf">>)
            /\ UNCHANGED <<outboundCallsRef, pending>>
    /\ UNCHANGED <<faxVars, variant, inboundWord, audio, initPc, disposed, clientRef, client, unmountPc>>

Next ==
    \/ Mount
    \/ \E r \in TokenResponses : TokenResponse(r)
    \/ Unmount(FALSE)
    \/ TelnyxReady
    \/ \E code \in {"CALL_ENDED", "OTHER"} : TelnyxError(code)
    \/ TelnyxSocketClose
    \/ \E c \in CallIds, s \in NotifStates : TelnyxNotification(c, s)
    \/ UserMediaError
    \/ \E c \in CallIds, s \in NotifStates : CallUpdate(c, s)
    \/ \E name \in {"call.hangup", "call.ended"} : CallEnded(name)
    \/ \E d \in Dests : SetDest(d)
    \/ \E c \in PlacedIds, throws \in BOOLEAN : PlaceCall(c, throws)
    \/ \E kind \in {"neterr", "notok", "badjson", "ok"} : OutboundResponse(kind)
    \/ Hangup
    \/ \E i \in 1..MaxPending, kind \in {"neterr", "notok", "ok"} : HangupResponse(i, kind)
    \/ \E throws \in BOOLEAN : Reject(throws)
    \/ \E throws \in BOOLEAN : ToggleMute(throws)
    \/ \E i \in 1..MaxPending, ok \in BOOLEAN : MuteSettled(i, ok)
    \/ \E throws \in BOOLEAN : Answer(throws)
    \/ \E i \in 1..MaxPending, granted \in BOOLEAN, throws \in BOOLEAN :
           MediaSettled(i, granted, throws)
    \/ \E d \in Digits, throws \in BOOLEAN : SendDTMF(d, throws)

Spec == Init /\ [][Next]_vars

\* The behaviours of the revision src/unnamed/part_002 alone.
InitRev2 == Start("rev2", "inbound")

NextRev2 ==
    \/ Mount
    \/ \E r \in TokenResponses : TokenResponse(r)
    \/ Unmount(FALSE)
    \/ TelnyxReady
    \/ \E code \in {"CALL_ENDED", "OTHER"} : TelnyxError(code)
    \/ TelnyxSocketClose
    \/ \E c \in CallIds, s \in NotifStates : TelnyxNotification(c, s)
    \/ UserMediaError
    \/ \E d \in Dests : SetDest(d)
    \/ \E c \in PlacedIds, throws \in BOOLEAN : PlaceCall(c, throws)
    \/ Hangup
    \/ \E throws \in BOOLEAN : ToggleMute(throws)
    \/ \E throws \in BOOLEAN : Answer(throws)
    \/ \E i \in 1..MaxPending, granted \in BOOLEAN, throws \in BOOLEAN :
           MediaSettled(i, granted, throws)
    \/ \E d \in Digits, throws \in BOOLEAN : SendDTMF(d, throws)

SpecRev2 == InitRev2 /\ [][NextRev2]_vars

\* part_002 with its rejectCall called directly, in any state the view can be in.
NextRejectCall ==
    \/ NextRev2
    \/ \E throws \in BOOLEAN : InvokeRejectCall(throws)

SpecRejectCall == InitRev2 /\ [][NextRejectCall]_vars

\* The behaviours of part_002 with its remote audio followed: the vendor
\* makes remote streams available, the timers of handleRemoteStream fire.
\* The user places calls, hangs up and mutes; the Answer button and the
\* keypad, whose handlers touch neither the audio element nor a timer, stay
\* untouched here.
InitAudio == StartWith("rev2", "inbound", SilentAudio)

NextAudio ==
    \/ Mount
    \/ \E r \in TokenResponses : TokenResponse(r)
    \/ Unmount(FALSE)
    \/ TelnyxReady
    \/ \E code \in {"CALL_ENDED", "OTHER"} : TelnyxError(code)
    \/ TelnyxSocketClose
    \/ \E c \in CallIds, s \in NotifStates : TelnyxNotification(c, s)
    \/ UserMediaError
    \/ Hangup
    \/ \E throws \in BOOLEAN : ToggleMute(throws)
    \/ \E d \in Dests : SetDest(d)
    \/ \E c \in PlacedIds, throws \in BOOLEAN : PlaceCall(c, throws)
    \/ \E c \in CallIds : RemoteStreamAvailable(c)
    \/ \E c \in CallIds : RemoteStreamTimer(c)

SpecAudio == InitAudio /\ [][NextAudio]_vars

\* A timer that is armed fires: the event loop runs every due timer.
FairSpecAudio == SpecAudio /\ \A c \in CallIds : WF_vars(RemoteStreamTimer(c))

\* The behaviours of the second revision of PhonePanel.tsx (lines 244-531)
\* with a vendor client that reports the direction its notification handler
\* tests for, 'incoming'.
InitRevB == Start("revB", "incoming")

NextRevB ==
    \/ Mount
    \/ \E r \in TokenResponses : TokenResponse(r)
    \/ Unmount(FALSE)
    \/ TelnyxReady
    \/ \E code \in {"CALL_ENDED", "OTHER"} : TelnyxError(code)
    \/ TelnyxSocketClose
    \/ \E c \in CallIds, s \in NotifStates : TelnyxNotification(c, s)
    \/ UserMediaError
    \/ \E c \in CallIds, s \in NotifStates : CallUpdate(c, s)
    \/ \E name \in {"call.hangup", "call.ended"} : CallEnded(name)
    \/ \E d \in Dests : SetDest(d)
    \/ \E c \in PlacedIds, throws \in BOOLEAN : PlaceCall(c, throws)
    \/ Hangup
    \/ \E throws \in BOOLEAN : Reject(throws)
    \/ \E throws \in BOOLEAN : ToggleMute(throws)
    \/ \E throws \in BOOLEAN : Answer(throws)
    \/ \E d \in Digits, throws \in BOOLEAN : SendDTMF(d, throws)

SpecRevB == InitRevB /\ [][NextRevB]_vars

\* part_002 and both revisions of PhonePanel.tsx, with a vendor client whose
\* disconnect may throw.
InitTeardown == \E v \in {"rev2", "revA", "revB"} : Start(v, "inbound")
NextTeardown ==
    \/ Next
    \/ Unmount(TRUE)
SpecTeardown == InitTeardown /\ [][NextTeardown]_vars

\* ------------------------------------------------------ Fax Workflow Surface
\* useEffect(() => { if (activeTab === "history") fetchFaxes(); }, [activeTab]):
\* whether the effect runs and fetches after a click on tab `to` while tab
\* `from` was active and the list was l.
effectFetches_WhenEmpty(l, from, to) == to # from /\ to = "history" /\ l = <<>>
effectFetches(l, from, to) == to # from /\ to = "history"

\* renderTabButton onClick: setActiveTab(tabId), then the effect on [activeTab];
\* fetchFaxes runs up to its await.
SetActiveTab(t) ==
    /\ LET fetches == effectFetches(fax.faxes, fax.activeTab, t) IN
       /\ fetches => FaxInFlight(faxReqs) + InFlight(modal.reqs) < MaxRequests
       /\ fax' = [fax EXCEPT !.activeTab = t,
                             !.loading = IF fetches THEN TRUE ELSE @]
       /\ faxReqs' = [faxReqs EXCEPT !.list = IF fetches THEN @ + 1 ELSE @]
       /\ faxLast' = FaxOp("setActiveTab", fax.activeTab, 0, "none", NoFaxRecord,
                           IF fetches THEN <<"GET /fax/list">> ELSE <<>>, "")
    /\ UNCHANGED <<modal, phoneVars>>

\* The Refresh button of the history tab (disabled while loading): fetchFaxes
\* up to its await.
Refresh ==
    /\ fax.activeTab = "history"
    /\ ~fax.loading
    /\ FaxInFlight(faxReqs) + InFlight(modal.reqs) < MaxRequests
    /\ fax' = [fax EXCEPT !.loading = TRUE]
    /\ faxReqs' = [faxReqs EXCEPT !.list = @ + 1]
    /\ faxLast' = FaxOp("refresh", fax.activeTab, 0, "none", NoFaxRecord,
                        <<"GET /fax/list">>, "")
    /\ UNCHANGED <<modal, phoneVars>>

\* fetchFaxes after its await: setFaxes(result.data.data || []) on success,
\* console.error otherwise, setLoading(false) in every case.
ListResponse(kind, list) ==
    /\ faxReqs.list > 0
    /\ faxReqs' = [faxReqs EXCEPT !.list = @ - 1]
    /\ fax' = [fax EXCEPT !.faxes = IF OkWithData(kind)
                                    THEN IF list = Null THEN <<>> ELSE list[1]
                                    ELSE @,
                          !.loading = FALSE]
    /\ faxLast' = FaxOp("listResponse", fax.activeTab, 0, kind, NoFaxRecord, <<>>, "")
    /\ UNCHANGED <<modal, phoneVars>>

\* onChange of the "Enter Fax ID" input.
SetStatusFaxId(v) ==
    /\ fax.activeTab = "status"
    /\ fax' = [fax EXCEPT !.statusFaxId = v]
    /\ faxLast' = FaxOp("setStatusFaxId", fax.activeTab, v, "none", NoFaxRecord, <<>>, "")
    /\ UNCHANGED <<faxReqs, modal, phoneVars>>

\* The Check Status button (disabled while loading): checkFaxStatus up to its await.
checkFaxStatus ==
    /\ fax.activeTab = "status"
    /\ ~fax.loading
    /\ IF fax.statusFaxId = NoFaxId
       THEN /\ faxLast' = FaxOp("checkFaxStatus", fax.activeTab, NoFaxId, "none",
                                NoFaxRecord, <<>>, "Please enter a Fax ID")
            /\ UNCHANGED <<fax, faxReqs>>
       ELSE /\ FaxInFlight(faxReqs) + InFlight(modal.reqs) < MaxRequests
            /\ fax' = [fax EXCEPT !.loading = TRUE]
            /\ faxReqs' = [faxReqs EXCEPT !.status[fax.statusFaxId] = @ + 1]
            /\ faxLast' = FaxOp("checkFaxStatus", fax.activeTab, fax.statusFaxId, "none",
                                NoFaxRecord, <<"GET /fax/status/{id}">>, "")
    /\ UNCHANGED <<modal, phoneVars>>

\* result.message of a response body: absent (or empty), or a text.
Messages == {"", "Invalid destination number"}
\* The bodies that reach the else branch are those of a non-OK response and
\* of an OK response without data; no other branch reads the message.
MessagesOf(kind) == IF kind \in {"notok", "nodata"} THEN Messages ELSE {""}

\* The alert of a failed request: `Error: ${error.message}` in the catch
\* block, `Error: ${result.message || fallback}` in the else branch.
FaxAlert(kind, message, fallback) ==
    "Error: " \o (IF kind = "neterr" THEN "Failed to fetch"
                  ELSE IF kind = "badjson" THEN "Unexpected token in JSON"
                  ELSE OrElse(message, fallback))

\* checkFaxStatus after its await; the body carries `message`.
StatusResponse(i, kind, message) ==
    /\ faxReqs.status[i] > 0
    /\ faxReqs' = [faxReqs EXCEPT !.status[i] = @ - 1]
    /\ fax' = [fax EXCEPT !.faxStatus = IF OkWithData(kind) THEN Some(i) ELSE Null,
                          !.loading = FALSE]
    /\ faxLast' = FaxOp("statusResponse", fax.activeTab, i, kind, NoFaxRecord, <<>>,
                        IF OkWithData(kind) THEN ""
                        ELSE FaxAlert(kind, message, "Failed to get fax status"))
    /\ UNCHANGED <<modal, phoneVars>>

\* handleFormInputChange(field)(event) for the two inputs the send tab renders.
handleFormInputChange(field, v) ==
    /\ fax.activeTab = "send"
    /\ fax' = [fax EXCEPT !.sendForm[field] = v]
    /\ faxLast' = FaxOp("handleFormInputChange", fax.activeTab, 0, "none", NoFaxRecord,
                        <<>>, "")
    /\ UNCHANGED <<faxReqs, modal, phoneVars>>

\* handleFileUpload with a file chosen.
handleFileUpload ==
    /\ fax.activeTab = "send"
    /\ fax' = [fax EXCEPT !.sendForm.file = Some("document.pdf"),
                          !.sendForm.mediaUrl = "blob:document.pdf"]
    /\ faxLast' = FaxOp("handleFileUpload", fax.activeTab, 0, "none", NoFaxRecord, <<>>, "")
    /\ UNCHANGED <<faxReqs, modal, phoneVars>>

\* The `disabled` attribute of the Send Fax button.
SendButtonDisabled_Never(f) == FALSE
SendButtonDisabled(f) == f.sendingFax

\* The Send Fax button: sendFax up to its await.  The request keeps the
\* activeTab of the render whose closure it is.
sendFax ==
    /\ fax.activeTab = "send"
    /\ ~SendButtonDisabled(fax)
    /\ IF fax.sendForm.to = "" \/ fax.sendForm.mediaUrl = ""
       THEN /\ faxLast' = FaxOp("sendFax", fax.activeTab, 0, "none", NoFaxRecord, <<>>,
                                "Please fill in all required fields")
            /\ UNCHANGED <<fax, faxReqs>>
       ELSE /\ FaxInFlight(faxReqs) + InFlight(modal.reqs) < MaxRequests
            /\ fax' = [fax EXCEPT !.sendingFax = TRUE]
            /\ faxReqs' = [faxReqs EXCEPT !.send = Append(@, fax.activeTab)]
            /\ faxLast' = FaxOp("sendFax", fax.activeTab, 0, "none", NoFaxRecord,
                                <<"POST /fax/send">>, "")
    /\ UNCHANGED <<modal, phoneVars>>

\* sendFax after its await: on success the alert, the form reset and, if the
\* closure's activeTab is "history", fetchFaxes; setSendingFax(false) in
\* every case.  The body carries `message`.
SendResponse(kind, message) ==
    /\ faxReqs.send # <<>>
    /\ LET tab == Head(faxReqs.send)
           fetches == OkWithData(kind) /\ tab = "history"
       IN /\ fax' = [fax EXCEPT !.sendForm = IF OkWithData(kind) THEN EmptySendForm ELSE @,
                                !.loading = IF fetches THEN TRUE ELSE @,
                                !.sendingFax = FALSE]
          /\ faxReqs' = [faxReqs EXCEPT !.send = Tail(@),
                                        !.list = IF fetches THEN @ + 1 ELSE @]
          /\ faxLast' = FaxOp("sendResponse", tab, 0, kind, NoFaxRecord,
                              IF fetches THEN <<"GET /fax/list">> ELSE <<>>,
                              IF OkWithData(kind) THEN "Fax sent successfully! Fax ID: {faxId}"
                              ELSE FaxAlert(kind, message, "Failed to send fax"))
    /\ UNCHANGED <<modal, phoneVars>>

\* A row of the history list is a <div onClick> that takes no keyboard focus:
\* only the pointer reaches it, and the open overlay (fixed inset-0 z-50)
\* lies over every row.
RowTakesClick == ~fax.modalOpen

\* A click on a row of the history list: setSelectedFaxId(fax.id),
\* setModalOpen(true); then the overlay's effect on [isOpen, faxId], whose
\* fetchFaxDetail runs up to its await.
OpenFax(i) ==
    /\ RowTakesClick
    /\ fax.activeTab = "history"
    /\ ~fax.loading
    /\ \E k \in 1..Len(fax.faxes) : fax.faxes[k] = i
    /\ FaxInFlight(faxReqs) + InFlight(modal.reqs) < MaxRequests
    /\ fax' = [fax EXCEPT !.selectedFaxId = Some(i), !.modalOpen = TRUE]
    /\ modal' = [modal EXCEPT !.loading = TRUE, !.reqs[i] = @ + 1]
    /\ faxLast' = FaxOp("openFax", fax.activeTab, i, "none", NoFaxRecord,
                        <<"GET /fax/status/{id}">>, "")
    /\ UNCHANGED <<faxReqs, phoneVars>>

\* onClose: setModalOpen(false); then the overlay's effect takes its else
\* branch, setFax(null).
CloseModal ==
    /\ fax.modalOpen
    /\ fax' = [fax EXCEPT !.modalOpen = FALSE]
    /\ modal' = [modal EXCEPT !.fax = Null]
    /\ faxLast' = FaxOp("closeModal", fax.activeTab, 0, "none", NoFaxRecord, <<>>, "")
    /\ UNCHANGED <<faxReqs, phoneVars>>

\* fetchFaxDetail after its await, for a request issued for fax i.
DetailResponse(i, r) ==
    /\ modal.reqs[i] > 0
    /\ modal' = [modal EXCEPT !.fax = IF OkWithData(r.kind) THEN Some(normalized(r.data))
                                      ELSE Null,
                              !.loading = FALSE,
                              !.reqs[i] = @ - 1]
    /\ faxLast' = FaxOp("detailResponse", fax.activeTab, i, r.kind, r.data, <<>>, "")
    /\ UNCHANGED <<fax, faxReqs, phoneVars>>

\* The history list, shared by the two fax specifications.
NextFaxList ==
    \/ \E t \in Tabs : SetActiveTab(t)
    \/ Refresh
    \/ \E kind \in ResponseKinds :
          \E list \in (IF kind = "ok" THEN FaxLists ELSE {Null}) : ListResponse(kind, list)

\* The fax dashboard: the three tabs, the overlay never opened.
InitFax == Start("rev2", "inbound")
NextFax ==
    \/ NextFaxList
    \/ \E v \in {NoFaxId} \cup FaxIds : SetStatusFaxId(v)
    \/ checkFaxStatus
    \/ \E i \in FaxIds : \E kind \in ResponseKinds :
          \E message \in MessagesOf(kind) : StatusResponse(i, kind, message)
    \/ \E v \in {"", "+1234567890"} : handleFormInputChange("to", v)
    \/ \E v \in {"", "https://example.com/document.pdf"} : handleFormInputChange("mediaUrl", v)
    \/ handleFileUpload
    \/ sendFax
    \/ \E kind \in ResponseKinds : \E message \in MessagesOf(kind) :
          SendResponse(kind, message)
SpecFax == InitFax /\ [][NextFax]_vars

\* The history tab and the detail overlay.
NextFaxDetail ==
    \/ NextFaxList
    \/ \E i \in FaxIds : OpenFax(i)
    \/ CloseModal
    \/ \E i \in FaxIds : \E r \in DetailResponses(i) : DetailResponse(i, r)
SpecFaxDetail == InitFax /\ [][NextFaxDetail]_vars

\* ===================================================================== claims

\* C1: whenever rev2's notification handler processes a call update whose
\* state is hangup or destroy, right after it the incoming-call record is
\* null, the active-call record is null and the mute flag is false, whatever
\* they were before.
C1_TerminalClearsCall ==
    (variant = "rev2" /\ last.op = "telnyx.notification" /\ last.state \in Terminal
        /\ ~disposed)
    => (ui.incomingCall = Null /\ ui.activeCall = Null /\ ui.muted = FALSE)

\* A terminal notification was processed while an incoming call and an active
\* call were tracked and the call was muted.
C1_Witness ==
    /\ variant = "rev2" /\ last.op = "telnyx.notification" /\ last.state \in Terminal
    /\ ~disposed
    /\ last.pre.activeCall # Null /\ last.pre.incomingCall # Null /\ last.pre.muted
    /\ ui.activeCall = Null

\* C2: once a hang-up the user invoked with an active call tracked has
\* completed (the click itself where the handler is synchronous, the
\* continuation after the backend's answer where it awaits one), the
\* active-call record is null and status is "Ready", whatever the backend
\* answered.
C2_HangupClearsAtOnce ==
    (\/ (last.op = "hangup" /\ last.fx = <<"hangup">>)
     \/ last.op = "hangupResponse")
    => (ui.activeCall = Null /\ ui.status = "Ready")

\* C3: right after reject has cleared incoming call c, a ringing or active
\* notification for the same c leaves the incoming-call record and the
\* active-call record null.
C3_LateNotificationIgnored ==
    [][(/\ variant = "rev2"
        /\ last.op = "reject" /\ last.state = ""
        /\ last'.op = "telnyx.notification" /\ last'.call = last.call
        /\ last'.state \in {"ringing", "active"})
       => (ui'.incomingCall = Null /\ ui'.activeCall = Null)]_vars

\* C4: when the view was unmounted while the token request was in flight, no
\* step after the unmount changes the UI state (revisions part_002, part_001
\* and PhonePanel.tsx lines 1-243).
C4_NoUpdateAfterUnmount ==
    [][(variant # "revB" /\ unmountPc = "fetching") => ui' = ui]_vars

\* C5: after the unmount no vendor client of that mount is connected, and
\* none is held by the client reference.
C5_NoClientAfterUnmount ==
    (variant = "rev2" /\ disposed) => (~ClientLive /\ clientRef = Null)

\* C6: a click on Call while ConnectionState is not ready is a no-op: it
\* issues no request, constructs no vendor call and changes neither status nor
\* any other state, even when the vendor client exists.
C6_PlaceCallNeedsReady ==
    [][(last'.op = "placeCall" /\ ui.connectionState # "ready")
       => (/\ last'.fx = <<>>
           /\ ui' = ui
           /\ UNCHANGED <<outboundCallsRef, pending, clientRef, client>>)]_vars

\* Call was clicked with a destination entered and a vendor client in place,
\* the connection not being ready.
C6_Witness ==
    /\ last.op = "placeCall" /\ last.pre.connectionState \in {"error", "disconnected"}
    /\ clientRef # Null /\ ui.dest # ""
    /\ last.fx = <<>>

\* The statuses that show a call being initiated.
InitiatingStatuses ==
    {"Dialing...", "Initiating call...", "Call initiated",
     "Call initiated - waiting for connection..."}

\* A call is in progress: a call record is tracked or (the revisions whose
\* Call button follows status) the status shows a call being initiated.
CallInProgress(v, u) ==
    IF v = "rev2" THEN u.activeCall # Null \/ u.incomingCall # Null
    ELSE u.activeCall # Null \/ u.status \in InitiatingStatuses

\* C7: with ConnectionState ready, a destination entered and no call in
\* progress, a click on Call issues exactly one outbound action (one vendor
\* call construction or one backend request) and, unless the vendor's
\* constructor throws, leaves status at an initiating/dialing value.
C7_PlaceCallOnce ==
    [][(/\ last'.op = "placeCall"
        /\ ui.connectionState = "ready" /\ ui.dest # ""
        /\ ~CallInProgress(variant, ui))
       => (/\ last'.fx \in {<<"newCall">>, <<"fetch:outbound">>}
           /\ (last'.state # "threw" => ui'.status \in InitiatingStatuses))]_vars

\* rev2 has placed a call: one vendor construction, status "Dialing...".
C7_Witness ==
    /\ variant = "rev2" /\ last.op = "placeCall" /\ last.fx = <<"newCall">>
    /\ last.pre.connectionState = "ready"
    /\ last.pre.activeCall = Null /\ last.pre.incomingCall = Null
    /\ ui.dest = "+15556667777" /\ ui.status = "Dialing..."

\* The token response carries no login token: no string at data.login_token,
\* at login_token or at data.
NoLoginToken(r) ==
    \/ r.kind # "ok"
    \/ (/\ r.body.data_login_token # "string"
        /\ r.body.login_token # "string"
        /\ r.body.data # "string")

\* C8: when the token request of a mounted view fails or its response carries
\* no login token, ConnectionState is error and no vendor client is
\* constructed or connected.
C8_NoTokenMeansError ==
    (variant = "rev2" /\ last.op = "tokenResponse" /\ ~disposed /\ NoLoginToken(last.resp))
    => (ui.connectionState = "error" /\ client = "none" /\ clientRef = Null)

\* C9: at most one call is tracked as incoming and at most one as active.
C9_AtMostOneCall ==
    /\ Len(ui.incomingCall) <= 1
    /\ Len(ui.activeCall) <= 1

\* A call became active while another call was the active call.
C9_Witness ==
    /\ variant = "rev2" /\ last.op = "telnyx.notification" /\ last.state = "active"
    /\ ~disposed
    /\ last.pre.activeCall # Null /\ last.pre.activeCall # Some(last.call)
    /\ ui.activeCall = Some(last.call)

\* The status and the active-call record of a UI state.
Final(u) == <<u.status, u.activeCall>>

\* C10: while the request for a backend-originated outbound call is in
\* flight, processing its OK response and then the call update for the call
\* leaves the same status and active-call record as processing them the other
\* way round.
C10_OrderIndependent ==
    (variant \in BackendVariants /\ outboundReqs > 0)
    => \A c \in PlacedIds, s \in NotifStates :
          Final(onCallUpdate(variant, onOutboundResponse(variant, ui, "ok"), c, s))
          = Final(onOutboundResponse(variant, onCallUpdate(variant, ui, c, s), "ok"))

\* The call is an inbound one.
Inbound(c) == direction(c) = inboundWord

\* C11: right after the notification handler processed a ringing call update,
\* an inbound call has an incoming-call record and status is "Incoming: "
\* followed by the record's caller; for an outbound call the incoming-call
\* record is what it was before.
C11_RingingInbound ==
    (/\ variant \in {"rev2", "revB"} /\ ~disposed
     /\ last.op = "telnyx.notification" /\ last.state = "ringing")
    => IF Inbound(last.call)
       THEN /\ ui.incomingCall # Null
            /\ ui.status = "Incoming: " \o ui.incomingCall[1].from
       ELSE ui.incomingCall = last.pre.incomingCall

\* C12: right after rev2's notification handler processed a call update with
\* state active, that call is the active-call record, the incoming-call
\* record is null and status is "Connected", whatever was tracked before.
C12_ActivePromotes ==
    (/\ variant = "rev2" /\ ~disposed
     /\ last.op = "telnyx.notification" /\ last.state = "active")
    => (/\ ui.activeCall = Some(last.call)
        /\ ui.incomingCall = Null
        /\ ui.status = "Connected")

\* A call went active while another call was ringing as the incoming call and
\* no ringing notification for the active call had set a record.
C12_Witness ==
    /\ variant = "rev2" /\ ~disposed
    /\ last.op = "telnyx.notification" /\ last.state = "active"
    /\ last.pre.incomingCall # Null /\ last.pre.incomingCall[1].call # last.call
    /\ last.pre.activeCall = Null
    /\ ui.activeCall = Some(last.call) /\ ui.incomingCall = Null

\* C13: right after rev2's notification handler processed a hangup or destroy
\* call update, status is "Ready" if ConnectionState was ready at that moment
\* and "Disconnected" otherwise.
C13_TerminalStatus ==
    (/\ variant = "rev2" /\ ~disposed
     /\ last.op = "telnyx.notification" /\ last.state \in Terminal)
    => ui.status = IF last.pre.connectionState = "ready" THEN "Ready" ELSE "Disconnected"

\* The states of a call update that are neither ringing, active nor terminal.
OtherStates == NotifStates \ ({"ringing", "active"} \cup Terminal)

\* C14: a call update whose state is none of ringing, active, hangup, destroy
\* leaves the incoming-call record, the active-call record and the mute flag
\* as they were.
C14_OtherStatesKeepRecords ==
    (/\ variant \in {"rev2", "rev1"} /\ ~disposed
     /\ last.op \in {"telnyx.notification", "callUpdate"} /\ last.state \in OtherStates)
    => (/\ ui.incomingCall = last.pre.incomingCall
        /\ ui.activeCall = last.pre.activeCall
        /\ ui.muted = last.pre.muted)

\* The values of ConnectionState.
ConnectionStates == {"connecting", "ready", "error", "disconnected"}

\* C15: in rev2, once a terminal call update has been processed, processing
\* the same call update again changes neither the UI state nor the set of
\* placed calls; and in every state cleanupCall applied twice gives what
\* cleanupCall applied once gives.
C15_TerminalIdempotent ==
    /\ (/\ variant = "rev2" /\ ~disposed
        /\ last.op = "telnyx.notification" /\ last.state \in Terminal)
       => (/\ handleCallUpdate(ui, last.call, last.state, EffectConnectionState) = ui
           /\ outboundCallsRef \ {last.call} = outboundCallsRef)
    /\ variant = "rev2"
       => \A cs \in ConnectionStates :
             cleanupCall(cleanupCall(ui, cs), cs) = cleanupCall(ui, cs)

\* A terminal call update was processed that cleared a muted active call
\* which this client had placed.
C15_Witness ==
    /\ variant = "rev2" /\ ~disposed
    /\ last.op = "telnyx.notification" /\ last.state \in Terminal
    /\ last.pre.activeCall = Some(last.call) /\ last.pre.muted
    /\ last.call \in PlacedIds
    /\ ui.activeCall = Null /\ ~ui.muted

\* C16: when the audio-capture permission asked for by rev2's answerCall is
\* denied, the vendor answer is not invoked, status is "Failed to answer" and
\* the incoming-call and active-call records are as before.
C16_DeniedAnswerFails ==
    (variant = "rev2" /\ last.op = "mediaSettled" /\ last.state = "denied")
    => (/\ last.fx = <<>>
        /\ ui.status = "Failed to answer"
        /\ ui.incomingCall = last.pre.incomingCall
        /\ ui.activeCall = last.pre.activeCall)

\* The permission was denied while the call being answered was still the
\* incoming call.
C16_Witness ==
    /\ variant = "rev2" /\ last.op = "mediaSettled" /\ last.state = "denied"
    /\ ui.incomingCall # Null /\ ui.incomingCall[1].call = last.call
    /\ ui.status = "Failed to answer"

\* C17: in part_002 and the second revision of PhonePanel.tsx, answer and
\* reject without an incoming-call record, and hang up, mute/unmute and
\* send-DTMF without an active-call record, invoke nothing and change no state.
C17_NoRecordNoOp ==
    [][(/\ variant \in {"rev2", "revB"}
        /\ \/ (last'.op \in {"answer", "reject"} /\ ui.incomingCall = Null)
           \/ (last'.op \in {"hangup", "toggleMute", "sendDTMF"} /\ ui.activeCall = Null))
       => (/\ last'.fx = <<>>
           /\ ui' = ui
           /\ UNCHANGED <<outboundCallsRef, pending, clientRef, client>>)]_vars

\* Hangup was invoked while a call was ringing as the incoming call and no
\* call was active: nothing was invoked and the incoming call is still there.
C17_Witness ==
    /\ variant = "rev2" /\ last.op = "hangup" /\ last.fx = <<>>
    /\ last.pre.activeCall = Null /\ last.pre.incomingCall # Null
    /\ ui.incomingCall = last.pre.incomingCall /\ ui.activeCall = Null

\* C18: right after a reject that invoked the vendor hangup, the
\* incoming-call record is null and the rejected call is not the active call.
C18_RejectForgetsCall ==
    (/\ variant \in {"rev2", "revB"}
     /\ last.op = "reject" /\ last.fx = <<"hangup">> /\ last.state = "")
    => (ui.incomingCall = Null /\ ui.activeCall # Some(last.call))

\* C19: when the backend hangup request fails (network error or non-OK
\* status), the continuation of hangup invokes the vendor call's hangup.
C19_HangupFallsBack ==
    (last.op = "hangupResponse" /\ last.state \in {"neterr", "notok"})
    => last.fx = <<"hangup">>

\* C20: a mute/unmute or send-DTMF whose vendor call throws or rejects leaves
\* the whole UI state (call records, mute flag, status) as it was.
C20_VendorFailureSwallowed ==
    [][(last'.op \in {"toggleMute", "muteSettled", "sendDTMF"} /\ last'.state = "threw")
       => ui' = ui]_vars

\* An unmute whose vendor call threw: the call is still active and muted.
C20_Witness ==
    /\ variant = "rev2" /\ last.op = "toggleMute" /\ last.state = "threw"
    /\ last.fx = <<"unmuteAudio">>
    /\ last.pre.muted /\ ui.muted /\ ui.activeCall # Null

\* C21: in part_002, whenever a call is the active call and its remote stream
\* is available, the stream eventually is the srcObject of the audio element,
\* or the call stops being the active call (or the view unmounts).
C21_StreamEventuallyAttached ==
    \A c \in CallIds :
        (ui.activeCall = Some(c) /\ c \in audio.streams /\ ~disposed)
        ~> (audio.srcObject = Some(c) \/ ui.activeCall # Some(c) \/ disposed)

\* The steps of the bootstrap and of the vendor client's lifecycle events.
LifecycleOps == {"mount", "tokenResponse", "telnyx.ready", "telnyx.error",
                 "telnyx.socket.close"}

\* C22: in part_002 only the bootstrap and the vendor client's lifecycle
\* events (ready, error, socket close) change ConnectionState - no call update
\* and no call-control action does - and the mount sets it to connecting.
C22_ConnectionStateOwner ==
    [][/\ (ui'.connectionState # ui.connectionState => last'.op \in LifecycleOps)
       /\ (last'.op = "mount" => ui'.connectionState = "connecting")]_vars

\* A terminal call update was processed on a ready connection, clearing an
\* active call, and the connection is still ready.
C22_Witness ==
    /\ variant = "rev2" /\ ~disposed
    /\ last.op = "telnyx.notification" /\ last.state \in Terminal
    /\ last.pre.activeCall # Null /\ last.pre.connectionState = "ready"
    /\ ui.connectionState = "ready" /\ ui.activeCall = Null

\* C23: the status label is determined by ConnectionState and the two call
\* records: a step that changes none of the three does not change the label.
C23_StatusIsDerived ==
    [][(/\ ui'.connectionState = ui.connectionState
        /\ ui'.incomingCall = ui.incomingCall
        /\ ui'.activeCall = ui.activeCall)
       => ui'.status = ui.status]_vars

\* C24: a backend response with an OK status and no `data` field is treated
\* as a failure.  For the token request: the init that receives such a
\* response constructs no client and connects nothing.
C24_OkWithoutDataFails ==
    (/\ last.op = "tokenResponse"
     /\ last.resp.kind = "ok"
     /\ last.resp.body.data = "undefined")
    => (last.fx = <<>> /\ clientRef = Null)

\* C25: the text the detail overlay shows under "Created At" follows the
\* fallback chain of the record the backend returned: its created_at when the
\* record has one, otherwise its createdAt, otherwise a dash (a field that is
\* absent or null is not there; an instant is shown in the locale's format, an
\* empty value as a dash).
ShownInstant(v) == IF v = "" THEN "-" ELSE toLocaleString(v)
C25_CreatedAtFallback ==
    (faxLast.op = "detailResponse" /\ faxLast.kind = "ok" /\ fax.modalOpen)
    => ModalShows(fax.modalOpen, modal) =
          IF ~Nullish(faxLast.data.created_at) THEN ShownInstant(faxLast.data.created_at)
          ELSE IF ~Nullish(faxLast.data.createdAt) THEN ShownInstant(faxLast.data.createdAt)
          ELSE "-"
\* A record with createdAt and without created_at arrived, and the overlay
\* shows the createdAt instant.
C25_Witness ==
    /\ faxLast.op = "detailResponse" /\ faxLast.kind = "ok" /\ fax.modalOpen
    /\ faxLast.data.created_at = "undefined"
    /\ faxLast.data.createdAt = "2024-01-15T10:30:00Z"
    /\ ModalShows(fax.modalOpen, modal) = "1/15/2024, 10:30:00 AM"

\* C26 (as amended): a click on a tab issues one list request exactly when it
\* switches to the history tab from another tab, whether or not a list was
\* fetched before; a switch to the send or status tab issues no request; and
\* no response, failed or not, issues a request again.
FaxResponseOps == {"listResponse", "statusResponse", "sendResponse"}
C26_HistorySwitchFetches ==
    /\ faxLast.op = "setActiveTab"
        => faxLast.fx = IF fax.activeTab = "history" /\ faxLast.tab # "history"
                        THEN <<"GET /fax/list">> ELSE <<>>
    /\ faxLast.op \in FaxResponseOps => faxLast.fx = <<>>
\* The history tab is entered again with a list already fetched, and the list
\* is requested anew.
C26_Witness ==
    /\ faxLast.op = "setActiveTab"
    /\ fax.activeTab = "history" /\ faxLast.tab = "status"
    /\ fax.faxes # <<>>
    /\ faxLast.fx = <<"GET /fax/list">>
    /\ faxReqs.list = 1
\* C26 (as stated): every tab switch triggers a fetch.
C26_EverySwitchFetches ==
    (faxLast.op = "setActiveTab" /\ fax.activeTab # faxLast.tab) => faxLast.fx # <<>>

\* C27: a failure of the place-call action (the vendor's call constructor
\* throws, or the outbound request fails or is answered with a non-OK status)
\* is caught inside the action, and status is "Ready" afterwards.
C27_PlaceCallFailureCaught ==
    (\/ (last.op = "placeCall" /\ last.state = "threw")
     \/ (last.op = "outboundResponse" /\ last.state \in {"neterr", "notok"}))
    => (PlaceCallCatches(variant) /\ ui.status = "Ready")

\* C28: the unmount cleanup raises no error, also when the vendor's
\* disconnect throws, and leaves the client reference null.
C28_TeardownNeverThrows ==
    last.op = "unmount"
    => /\ clientRef = Null
       /\ (last.state = "threw" => CleanupCatches(variant))

\* C29: hangup and destroy are terminal per call identifier: the notification
\* that follows a processed terminal notification for the same identifier
\* creates no incoming-call and no active-call record.
C29_TerminalIsFinal ==
    [][(/\ ~disposed
        /\ last.op = "telnyx.notification" /\ last.state \in Terminal
        /\ last'.op = "telnyx.notification" /\ last'.call = last.call)
       => (ui'.incomingCall = Null /\ ui'.activeCall = Null)]_vars

\* C30: a terminal notification whose identifier differs from the tracked
\* active call's leaves the active-call record and the mute flag as they were.
C30_TerminalOfOtherCall ==
    (/\ last.op = "telnyx.notification" /\ last.state \in Terminal
     /\ last.pre.activeCall # Null
     /\ last.pre.activeCall # Some(last.call))
    => (ui.activeCall = last.pre.activeCall /\ ui.muted = last.pre.muted)

\* C31: at most one outbound call is outstanding: a place-call invoked right
\* after a place-call that constructed a call (or issued the backend
\* request), before any notification is processed, constructs no vendor call
\* and issues no request.
C31_OneOutboundCall ==
    [][(/\ last.op = "placeCall" /\ last.fx # <<>> /\ last.state # "threw"
        /\ last'.op = "placeCall")
       => last'.fx = <<>>]_vars

\* C32: in every reachable state the mute flag is set only while an
\* active-call record exists.
C32_MutedOnlyWithActiveCall == ui.muted => ui.activeCall # Null

\* C33: rejecting an incoming call while a different call is active leaves
\* the active-call record and the mute flag as they were.
C33_RejectKeepsActiveCall ==
    (/\ last.op = "reject" /\ last.state = "" /\ last.fx = <<"hangup">>
     /\ last.pre.activeCall # Null
     /\ last.pre.activeCall # Some(last.call))
    => (ui.activeCall = last.pre.activeCall /\ ui.muted = last.pre.muted)

\* C34: when the permission is granted after the incoming call was cleared
\* (it ended or was rejected while answer was waiting), the vendor answer is
\* not invoked and status does not become "Answering...".
C34_NoAnswerOfClearedCall ==
    (/\ last.op = "mediaSettled" /\ last.state # "denied"
     /\ last.pre.incomingCall = Null)
    => (last.fx = <<>> /\ ui.status # "Answering...")

\* C35: whenever no active-call record exists, the audio element has no
\* remote stream attached.
C35_NoStreamWithoutActiveCall ==
    (~disposed /\ ui.activeCall = Null) => audio.srcObject = Null

\* C36: once no detail request is in flight, the record the open overlay
\* displays is that of the currently selected fax id.
C36_OverlayShowsSelectedFax ==
    (/\ InFlight(modal.reqs) = 0
     /\ fax.modalOpen
     /\ modal.fax # Null)
    => Some(modal.fax[1].id) = fax.selectedFaxId

\* C37: the fax panel's loading flag is true exactly while a status lookup
\* or a list request is in flight.
C37_LoadingWhileInFlight ==
    fax.loading <=> (InFlight(faxReqs.status) + faxReqs.list > 0)

\* C38: sendingFax is true exactly while a send request is in flight; at most
\* one send request is in flight; after every outcome of the request
\* (success, error response, network failure) the flag is false.
C38_SendingFaxWhileInFlight ==
    /\ fax.sendingFax <=> (faxReqs.send # <<>>)
    /\ Len(faxReqs.send) <= 1
    /\ faxLast.op = "sendResponse" => ~fax.sendingFax
\* A send request ended in a network failure and the flag is false again.
C38_Witness ==
    /\ faxLast.op = "sendResponse" /\ faxLast.kind = "neterr"
    /\ ~fax.sendingFax /\ faxReqs.send = <<>>
    /\ fax.sendForm.to # ""

\* C39: sendFax leaves the form as it is and, when the recipient or the media
\* URL is empty, issues no request; the continuation of a send empties the
\* form after a success and leaves it unchanged after an error response or a
\* network failure.
C39_FormResetOnlyOnSuccess ==
    [][/\ faxLast'.op = "sendFax"
           => /\ fax'.sendForm = fax.sendForm
              /\ (fax.sendForm.to = "" \/ fax.sendForm.mediaUrl = "") => faxLast'.fx = <<>>
       /\ faxLast'.op = "sendResponse"
           => fax'.sendForm = IF faxLast'.kind = "ok" THEN EmptySendForm ELSE fax.sendForm]_vars
\* A send was answered with a non-OK status and the form still holds the
\* recipient and the media URL.
C39_Witness ==
    /\ faxLast.op = "sendResponse" /\ faxLast.kind = "notok"
    /\ fax.sendForm.to = "+1234567890"
    /\ fax.sendForm.mediaUrl = "https://example.com/document.pdf"

====
